---- MODULE Spec2Model ----
(***************************************************************************)
(* GestorLead Studio backend: the ORM model objects (Campaign, User, Task,  *)
(* Agent, APIKey) with their state-transition methods, the users / tasks   *)
(* REST handlers over the CRUD layer, the ORM cascades between the tables, *)
(* and JWT issuance / verification with AuthService.                       *)
(*                                                                         *)
(* Each part is checked under its own specification (SpecCampaign,         *)
(* SpecUser, SpecTask, SpecUsersApi, SpecUsersCrud, SpecCascade, SpecAuth, *)
(* SpecAgent, SpecAPIKey, SpecKeyDefaults); the variables of the other    *)
(* parts stay at their initial values there.                               *)
(***************************************************************************)
EXTENDS Integers, Sequences, FiniteSets, TLC

VARIABLES
    now,            \* datetime.utcnow(), in clock ticks (seconds)
    campaign,       \* one Campaign object
    campaign_ret,   \* the last Campaign method call and its outcome
    user,           \* one User object
    user_ret,       \* the last User method call and its outcome
    task,           \* one Task object
    task_ret,       \* the last Task method call / tasks request and its outcome
    users,          \* the users table: set of rows
    next_id,        \* the users.id sequence
    reqs,           \* the create_user requests in flight, by request number
    db,             \* the tables of rows that reference users
    api_ret,        \* the last answered users request
    tokens,         \* the JWTs issued so far
    logged_out,     \* the issued tokens whose user called logout since
    auth_ret,       \* the last AuthService / security call and its outcome
    agent,          \* one Agent object
    agent_ret,      \* the last Agent method call
    api_key,        \* one APIKey object
    api_key_ret,    \* the last APIKey method call
    keys            \* the rows of the api_keys table, by key id

vars == <<now, campaign, campaign_ret, user, user_ret, task, task_ret,
          users, next_id, reqs, db, api_ret, tokens, logged_out, auth_ret,
          agent, agent_ret, api_key, api_key_ret, keys>>

campaignVars == <<campaign, campaign_ret>>
userVars     == <<user, user_ret>>
taskVars     == <<task, task_ret>>
apiVars      == <<users, next_id, reqs>>
dbVars       == <<db, api_ret>>
authVars     == <<tokens, logged_out, auth_ret>>
agentVars    == <<agent, agent_ret>>
keyVars      == <<api_key, api_key_ret>>
defaultVars  == <<keys>>

(***************************************************************************)
(* Bounds of the model.                                                    *)
(***************************************************************************)
MaxTime == 2
MaxBudget == 3
MaxAmount == 3
MaxSpent == 5
MaxBalance == 5
MaxRetry == 2
NumReqs == 3
NumEmails == 2
MaxUsers == 3

(***************************************************************************)
(* Optional[T]: None is the empty sequence, a set value v is <<v>>.        *)
(***************************************************************************)
None == <<>>

Some(v) == <<v>>

IsNone(x) == x = None

Val(x) == x[1]

Times == 0 .. MaxTime

Amounts == (0 - MaxAmount) .. MaxAmount

Tick ==
    /\ now < MaxTime
    /\ now' = now + 1

(***************************************************************************)
(* Campaign (models/campaign.py)                                           *)
(***************************************************************************)
CampaignStatuses ==
    {"draft", "scheduled", "active", "paused", "completed", "cancelled", "archived"}

\* A new campaign: status 'draft' and spent_credits 0 by column default.
NewCampaign(budget) ==
    [status |-> "draft", budget_credits |-> budget, spent_credits |-> 0,
     launched_at |-> None, completed_at |-> None]

\* budget_credits is NULL or positive (budget_positive).
Budgets == {None} \cup {Some(n) : n \in 1 .. MaxBudget}

NoCall == [op |-> "new", amount |-> 0, result |-> "None"]

has_budget(c) == ~IsNone(c.budget_credits) /\ Val(c.budget_credits) > 0

\* spent_credits_non_negative
spent_credits_non_negative(c) == c.spent_credits >= 0

\* spent_within_budget: spent_credits <= COALESCE(budget_credits, spent_credits)
spent_within_budget(c) ==
    c.spent_credits <=
        (IF IsNone(c.budget_credits) THEN c.spent_credits ELSE Val(c.budget_credits))

can_spend_credits_NoBudgetCheck(c, amount) == TRUE

can_spend_credits_Strict(c, amount) ==
    IF IsNone(c.budget_credits) THEN TRUE
    ELSE c.spent_credits + amount < Val(c.budget_credits)

can_spend_credits(c, amount) ==
    IF IsNone(c.budget_credits) THEN TRUE
    ELSE c.spent_credits + amount <= Val(c.budget_credits)

\* Campaign.spend_credits(amount): raises ValueError, or adds amount and returns True.
spend_credits(amount) ==
    /\ can_spend_credits(campaign, amount)
          => campaign.spent_credits + amount \in (0 - MaxSpent) .. MaxSpent
    /\ IF ~can_spend_credits(campaign, amount)
       THEN /\ campaign' = campaign
            /\ campaign_ret' = [op |-> "spend_credits", amount |-> amount,
                                result |-> "ValueError"]
       ELSE /\ campaign' = [campaign EXCEPT !.spent_credits = @ + amount]
            /\ campaign_ret' = [op |-> "spend_credits", amount |-> amount,
                                result |-> "True"]
    /\ UNCHANGED now

CampaignCall(op) == campaign_ret' = [op |-> op, amount |-> 0, result |-> "None"]

\* A launch that does not record its time.
launch_NoTimestamp ==
    /\ IF campaign.status = "draft"
       THEN campaign' = [campaign EXCEPT !.status = "active"]
       ELSE campaign' = campaign
    /\ CampaignCall("launch")
    /\ UNCHANGED now

launch ==
    /\ IF campaign.status = "draft"
       THEN campaign' = [campaign EXCEPT !.status = "active", !.launched_at = Some(now)]
       ELSE campaign' = campaign
    /\ CampaignCall("launch")
    /\ UNCHANGED now

pause ==
    /\ IF campaign.status = "active"
       THEN campaign' = [campaign EXCEPT !.status = "paused"]
       ELSE campaign' = campaign
    /\ CampaignCall("pause")
    /\ UNCHANGED now

resume ==
    /\ IF campaign.status = "paused"
       THEN campaign' = [campaign EXCEPT !.status = "active"]
       ELSE campaign' = campaign
    /\ CampaignCall("resume")
    /\ UNCHANGED now

complete ==
    /\ IF campaign.status \in {"active", "paused"}
       THEN campaign' = [campaign EXCEPT !.status = "completed",
                                         !.completed_at = Some(now)]
       ELSE campaign' = campaign
    /\ CampaignCall("complete")
    /\ UNCHANGED now

cancel ==
    /\ IF campaign.status \in {"draft", "scheduled", "active", "paused"}
       THEN campaign' = [campaign EXCEPT
                            !.status = "cancelled",
                            !.completed_at = IF IsNone(@) THEN Some(now) ELSE @]
       ELSE campaign' = campaign
    /\ CampaignCall("cancel")
    /\ UNCHANGED now

\* An archive without the status test.
archive_Unguarded ==
    /\ campaign' = [campaign EXCEPT !.status = "archived"]
    /\ CampaignCall("archive")
    /\ UNCHANGED now

archive ==
    /\ IF campaign.status \in {"completed", "cancelled"}
       THEN campaign' = [campaign EXCEPT !.status = "archived"]
       ELSE campaign' = campaign
    /\ CampaignCall("archive")
    /\ UNCHANGED now

CampaignOnly(A) == A /\ UNCHANGED <<userVars, taskVars, apiVars, dbVars,
        authVars, agentVars, keyVars,
                     defaultVars>>

CampaignNext ==
    \/ \E amount \in Amounts : CampaignOnly(spend_credits(amount))
    \/ CampaignOnly(launch)
    \/ CampaignOnly(pause)
    \/ CampaignOnly(resume)
    \/ CampaignOnly(complete)
    \/ CampaignOnly(cancel)
    \/ CampaignOnly(archive)
    \/ CampaignOnly(Tick /\ UNCHANGED campaignVars)

(***************************************************************************)
(* User (models/user.py)                                                   *)
(***************************************************************************)
\* A new user: credit_balance 0 by column default.
NewUser == [credit_balance |-> 0, email_verified_at |-> None, last_login_at |-> None]

\* credit_balance_non_negative
credit_balance_non_negative(u) == u.credit_balance >= 0

user_can_spend_credits_Always(u, amount) == TRUE

user_can_spend_credits(u, amount) == u.credit_balance >= amount

\* User.spend_credits(amount)
user_spend_credits(amount) ==
    /\ user_can_spend_credits(user, amount)
          => user.credit_balance - amount \in (0 - MaxBalance) .. MaxBalance
    /\ IF ~user_can_spend_credits(user, amount)
       THEN /\ user' = user
            /\ user_ret' = [op |-> "spend_credits", amount |-> amount,
                            result |-> "ValueError"]
       ELSE /\ user' = [user EXCEPT !.credit_balance = @ - amount]
            /\ user_ret' = [op |-> "spend_credits", amount |-> amount,
                            result |-> "True"]
    /\ UNCHANGED now

\* User.add_credits(amount)
add_credits(amount) ==
    /\ amount > 0 => user.credit_balance + amount <= MaxBalance
    /\ IF amount <= 0
       THEN /\ user' = user
            /\ user_ret' = [op |-> "add_credits", amount |-> amount,
                            result |-> "ValueError"]
       ELSE /\ user' = [user EXCEPT !.credit_balance = @ + amount]
            /\ user_ret' = [op |-> "add_credits", amount |-> amount,
                            result |-> "None"]
    /\ UNCHANGED now

\* User.verify_email()
verify_email ==
    /\ user' = [user EXCEPT !.email_verified_at = Some(now)]
    /\ user_ret' = [op |-> "verify_email", amount |-> 0, result |-> "None"]
    /\ UNCHANGED now

\* User.update_last_login()
update_last_login ==
    /\ user' = [user EXCEPT !.last_login_at = Some(now)]
    /\ user_ret' = [op |-> "update_last_login", amount |-> 0, result |-> "None"]
    /\ UNCHANGED now

UserOnly(A) == A /\ UNCHANGED <<campaignVars, taskVars, apiVars, dbVars,
        authVars, agentVars, keyVars,
                     defaultVars>>

UserNext ==
    \/ \E amount \in Amounts : UserOnly(user_spend_credits(amount))
    \/ \E amount \in Amounts : UserOnly(add_credits(amount))
    \/ UserOnly(verify_email)
    \/ UserOnly(update_last_login)
    \/ UserOnly(Tick /\ UNCHANGED userVars)

(***************************************************************************)
(* Task (models/task.py, schemas/task.py, api/v1/endpoints/tasks.py)       *)
(***************************************************************************)
\* schemas/task.py TaskStatus (the same members as entity_types.TaskStatus)
TaskStatus ==
    {"pending", "queued", "in_progress", "completed", "failed", "cancelled", "expired"}

\* schemas/task.py TaskPriority
TaskPriority == {"low", "medium", "high", "urgent"}

\* CheckConstraint valid_task_status
valid_task_status(status) ==
    status \in {"pending", "queued", "processing", "completed", "failed",
                "cancelled", "retrying"}

\* CheckConstraint valid_task_priority
valid_task_priority(priority) == priority \in {"low", "medium", "high", "urgent"}

\* CheckConstraint started_after_scheduled: started_at IS NULL OR started_at >= scheduled_at
\* (a comparison with a NULL scheduled_at is NULL, which passes the check)
started_after_scheduled(t) ==
    \/ IsNone(t.started_at)
    \/ IsNone(t.scheduled_at)
    \/ Val(t.started_at) >= Val(t.scheduled_at)

\* CheckConstraint completed_after_started: completed_at IS NULL OR completed_at >= started_at
completed_after_started(t) ==
    \/ IsNone(t.completed_at)
    \/ IsNone(t.started_at)
    \/ Val(t.completed_at) >= Val(t.started_at)

Results == {"r1"}

ErrorMessages == {"e1"}

ErrorCodes == {None, Some("c1")}

MsPerSecond == 1000

NoRequest == [status_in |-> "", violated |-> {}, code |-> 0]

\* A stored task: status 'pending' and retry_count 0 by column default.
NewTask(sched) ==
    [status |-> "pending", scheduled_at |-> sched, started_at |-> None,
     completed_at |-> None, retry_count |-> 0, error_message |-> None,
     error_code |-> None, result_payload |-> None, execution_time_ms |-> None]

\* scheduled_at is NULL or any time.
Schedules == {None} \cup {Some(t) : t \in Times}

NoTaskCall == [op |-> "new", http |-> NoRequest]

TaskCall(op) == task_ret' = [op |-> op, http |-> NoRequest]

start_execution ==
    /\ task' = [task EXCEPT !.status = "processing", !.started_at = Some(now)]
    /\ TaskCall("start_execution")
    /\ UNCHANGED now

complete_execution(result) ==
    /\ task' = [task EXCEPT
                  !.status = "completed",
                  !.completed_at = Some(now),
                  !.result_payload = Some(result),
                  !.execution_time_ms =
                      IF ~IsNone(task.started_at)
                      THEN Some((now - Val(task.started_at)) * MsPerSecond)
                      ELSE @]
    /\ TaskCall("complete_execution")
    /\ UNCHANGED now

fail_execution(error_message, error_code) ==
    /\ task' = [task EXCEPT
                  !.status = "failed",
                  !.completed_at = Some(now),
                  !.error_message = Some(error_message),
                  !.error_code = error_code]
    /\ TaskCall("fail_execution")
    /\ UNCHANGED now

\* A retry that keeps the error fields of the failed attempt.
retry_execution_KeepsError ==
    /\ task.retry_count < MaxRetry
    /\ task' = [task EXCEPT
                  !.retry_count = @ + 1,
                  !.status = "pending",
                  !.started_at = None,
                  !.completed_at = None]
    /\ TaskCall("retry_execution")
    /\ UNCHANGED now

retry_execution ==
    /\ task.retry_count < MaxRetry
    /\ task' = [task EXCEPT
                  !.retry_count = @ + 1,
                  !.status = "pending",
                  !.started_at = None,
                  !.completed_at = None,
                  !.error_message = None,
                  !.error_code = None]
    /\ TaskCall("retry_execution")
    /\ UNCHANGED now

cancel_execution ==
    /\ task' = [task EXCEPT
                  !.status = "cancelled",
                  !.completed_at = IF IsNone(@) THEN Some(now) ELSE @]
    /\ TaskCall("cancel_execution")
    /\ UNCHANGED now

\* The constraints of the tasks table that a row built by
\* crud_task.create(obj_in=TaskCreate, user_id) violates on commit.  TaskCreate
\* carries neither id nor credit_cost, and neither column has a default.
TaskRowViolations(status_in, priority_in) ==
    {"id_not_null", "credit_cost_not_null"}
        \cup (IF valid_task_status(status_in) THEN {} ELSE {"valid_task_status"})
        \cup (IF valid_task_priority(priority_in) THEN {} ELSE {"valid_task_priority"})

\* POST /tasks: create_task -> CRUDBase.create -> commit; an IntegrityError is
\* answered 500 by get_db.
create_task(status_in, priority_in) ==
    /\ LET violated == TaskRowViolations(status_in, priority_in)
       IN task_ret' = [op |-> "create_task",
                       http |-> [status_in |-> status_in, violated |-> violated,
                                 code |-> IF violated = {} THEN 200 ELSE 500]]
    /\ UNCHANGED <<task, now>>

\* GET /tasks/{id} of the stored task: the row is serialized through
\* TaskResponse, whose status field is the TaskStatus enum.
read_task ==
    /\ task_ret' = [op |-> "read_task",
                    http |-> [status_in |-> "", violated |-> {},
                              code |-> IF task.status \in TaskStatus THEN 200 ELSE 500]]
    /\ UNCHANGED <<task, now>>

TaskOnly(A) == A /\ UNCHANGED <<campaignVars, userVars, apiVars, dbVars,
        authVars, agentVars, keyVars,
                     defaultVars>>

TaskNext ==
    \/ TaskOnly(start_execution)
    \/ \E result \in Results : TaskOnly(complete_execution(result))
    \/ \E m \in ErrorMessages, c \in ErrorCodes : TaskOnly(fail_execution(m, c))
    \/ TaskOnly(retry_execution)
    \/ TaskOnly(cancel_execution)
    \/ \E s \in TaskStatus, p \in TaskPriority : TaskOnly(create_task(s, p))
    \/ TaskOnly(read_task)
    \/ TaskOnly(Tick /\ UNCHANGED taskVars)

(***************************************************************************)
(* Users API (api/v1/endpoints/users.py, crud/user.py, crud/base.py)       *)
(***************************************************************************)
Emails == 1 .. NumEmails

Reqs == 1 .. NumReqs

IdleReq == [pc |-> "idle", email |-> 0, existing |-> None, status |-> 0,
            detail |-> "", created |-> None, held |-> FALSE]

NoReqs == [r \in Reqs |-> IdleReq]

RowsWithEmail(tbl, email) == {u \in tbl : u.email = email}

\* The first def get_by_email of CRUDUser (crud/user.py:19): the row holding
\* the email, or None.
get_by_email_sync(tbl, email) ==
    IF RowsWithEmail(tbl, email) = {} THEN None
    ELSE Some(CHOOSE u \in RowsWithEmail(tbl, email) : TRUE)

\* CRUDUser.get_by_email as bound in the class: the later `async def
\* get_by_email` (crud/user.py:23) replaces the `def` of line 19, so the call
\* create_user makes without await returns a coroutine object and runs no query.
get_by_email(tbl, email) == Some([coroutine |-> "get_by_email"])

\* Python truth value of an Optional[object]: None is false, any other object
\* (a User row, a coroutine) is true.
Truthy(x) == ~IsNone(x)

\* The unique index on users.email.
email_unique(tbl, email) == RowsWithEmail(tbl, email) = {}

\* CRUDBase.create on the users table: db.add + db.commit.  The commit raises
\* IntegrityError when the email is already stored.
CanInsert(tbl, email) == email_unique(tbl, email)

\* A users row as CRUDBase.create stores it from a UserCreate.
NewUserRow(id, email) ==
    [id |-> id, email |-> email, full_name |-> "n0", credit_balance |-> 0,
     email_verified_at |-> None]

InsertUser(email) ==
    /\ users' = users \cup {NewUserRow(next_id, email)}
    /\ next_id' = next_id + 1

\* crud_user.create called directly (no email check), as the CRUD layer's
\* callers outside create_user do.
crud_create(email) ==
    /\ next_id <= MaxUsers
    /\ IF CanInsert(users, email)
       THEN InsertUser(email)
       ELSE UNCHANGED <<users, next_id>>
    /\ UNCHANGED <<reqs, now>>

\* POST /users, first statement: existing_user = crud_user.get_by_email(...)
create_user_check(r, email) ==
    /\ reqs[r].pc = "idle"
    /\ reqs' = [reqs EXCEPT ![r] = [@ EXCEPT !.pc = "checked", !.email = email,
                                            !.existing = get_by_email(users, email)]]
    /\ UNCHANGED <<users, next_id, now>>

\* POST /users, the rest: 400 when existing_user is true, else
\* crud_user.create and 201; an IntegrityError of the commit is answered 500
\* by get_db.  held is a history field: whether a stored user held the email
\* when the handler answered.
create_user_respond(r) ==
    /\ reqs[r].pc = "checked"
    /\ (~Truthy(reqs[r].existing) /\ CanInsert(users, reqs[r].email))
          => next_id <= MaxUsers
    /\ LET held == ~email_unique(users, reqs[r].email)
       IN IF Truthy(reqs[r].existing)
          THEN /\ reqs' = [reqs EXCEPT ![r] = [@ EXCEPT
                              !.pc = "done", !.status = 400,
                              !.detail = "Email ja cadastrado", !.held = held]]
               /\ UNCHANGED <<users, next_id>>
          ELSE IF CanInsert(users, reqs[r].email)
          THEN /\ InsertUser(reqs[r].email)
               /\ reqs' = [reqs EXCEPT ![r] = [@ EXCEPT
                              !.pc = "done", !.status = 201,
                              !.created = Some(next_id), !.held = held]]
          ELSE /\ reqs' = [reqs EXCEPT ![r] = [@ EXCEPT
                              !.pc = "done", !.status = 500,
                              !.detail = "Database error", !.held = held]]
               /\ UNCHANGED <<users, next_id>>
    /\ UNCHANGED now

ApiOnly(A) ==
    A /\ UNCHANGED <<campaignVars, userVars, taskVars, dbVars,
                     authVars, agentVars, keyVars,
                     defaultVars>>

ApiNext ==
    \/ \E r \in Reqs, e \in Emails : ApiOnly(create_user_check(r, e))
    \/ \E r \in Reqs : ApiOnly(create_user_respond(r))
    \/ \E e \in Emails : ApiOnly(crud_create(e))

(***************************************************************************)
(* The /users/{user_id} handlers and GET /users over the CRUD layer, and   *)
(* the tables whose rows reference users (ORM cascades).                   *)
(***************************************************************************)
MaxSkip == 2
MaxLimit == 2
MaxTasks == 2
MaxRows == 1

\* settings.MAX_PAGE_SIZE
MAX_PAGE_SIZE == 100

\* Path parameter user_id: every id the sequence can hand out, and one more.
UserIds == 1 .. (MaxUsers + 1)

\* UserUpdate, reduced to full_name: unset (None) or a new name.
Updates == {None, Some("n1")}

Skips == (0 - 1) .. MaxSkip

\* UserCreditUpdate.credits: a debit and a credit.
Credits == {0 - 1, 1}

\* Query parameter limit: small values, 0, and one above MAX_PAGE_SIZE.
Limits == (0 .. MaxLimit) \cup {MAX_PAGE_SIZE + 1}

EmptyDb == [tasks |-> {}, agents |-> {}, campaigns |-> {}, api_keys |-> {},
            generated_content |-> {}]

\* No request answered yet.  n alternates with every answered request, so a
\* step that answers a request is a step that changes api_ret; removed is
\* the number of rows of db the request deleted.
NoApiCall == [op |-> "none", id |-> 0, code |-> 0, n |-> 0, removed |-> 0,
              skip |-> 0, limit |-> 0, page |-> None, credits |-> 0]

ApiCall(op, id, code) ==
    [NoApiCall EXCEPT !.op = op, !.id = id, !.code = code, !.n = 1 - api_ret.n]

Ids(tbl) == {r.id : r \in tbl}

\* A lookup that ignores the id: the first row of the table.
crud_get_AnyRow(tbl, id) ==
    IF tbl # {} THEN Some(CHOOSE r \in tbl : TRUE) ELSE None

\* CRUDBase.get: the row with the id, or None.
crud_get(tbl, id) ==
    IF id \in Ids(tbl) THEN Some(CHOOSE r \in tbl : r.id = id) ELSE None

RowCount(d) ==
    Cardinality(d.tasks) + Cardinality(d.agents) + Cardinality(d.campaigns)
        + Cardinality(d.api_keys) + Cardinality(d.generated_content)

\* Session.delete of a User without the cascades through Campaign.tasks and
\* Task.generated_content: only the rows whose user_id is the user's.
DeleteUserRows_OwnedOnly(d, uid) ==
    [tasks |-> {t \in d.tasks : t.user_id # uid},
     agents |-> {a \in d.agents : a.user_id # uid},
     campaigns |-> {c \in d.campaigns : c.user_id # uid},
     api_keys |-> {k \in d.api_keys : k.user_id # uid},
     generated_content |-> {g \in d.generated_content : g.user_id # uid}]

\* Session.delete of a User: the relationships tasks, agents, campaigns,
\* api_keys and generated_content are cascade="all, delete-orphan", and so are
\* Campaign.tasks and Task.generated_content of the rows deleted with it.
DeleteUserRows(d, uid) ==
    LET camps == {c \in d.campaigns : c.user_id = uid}
        tks == {t \in d.tasks :
                   \/ t.user_id = uid
                   \/ \E c \in camps : t.campaign_id = Some(c.id)}
        gcs == {g \in d.generated_content :
                   \/ g.user_id = uid
                   \/ \E t \in tks : g.task_id = t.id}
    IN [tasks |-> d.tasks \ tks,
        agents |-> {a \in d.agents : a.user_id # uid},
        campaigns |-> d.campaigns \ camps,
        api_keys |-> {k \in d.api_keys : k.user_id # uid},
        generated_content |-> d.generated_content \ gcs]

\* Session.delete of a Campaign: Campaign.tasks is cascade="all,
\* delete-orphan", and Task.generated_content of the deleted tasks likewise.
DeleteCampaignRows(d, cid) ==
    LET tks == {t \in d.tasks : t.campaign_id = Some(cid)}
        gcs == {g \in d.generated_content : \E t \in tks : g.task_id = t.id}
    IN [d EXCEPT !.tasks = @ \ tks,
                 !.campaigns = {c \in @ : c.id # cid},
                 !.generated_content = @ \ gcs]

\* GET /users/{user_id}
read_user(user_id) ==
    /\ api_ret' = IF Truthy(crud_get(users, user_id))
                  THEN ApiCall("read_user", user_id, 200)
                  ELSE ApiCall("read_user", user_id, 404)
    /\ UNCHANGED <<users, next_id, db, now>>

\* PUT /users/{user_id}: CRUDBase.update sets the fields the body carries.
update_user(user_id, user_in) ==
    /\ LET found == crud_get(users, user_id)
       IN IF ~Truthy(found)
          THEN /\ api_ret' = ApiCall("update_user", user_id, 404)
               /\ UNCHANGED users
          ELSE /\ users' = (users \ {Val(found)}) \cup
                     {[Val(found) EXCEPT !.full_name =
                          IF IsNone(user_in) THEN @ ELSE Val(user_in)]}
               /\ api_ret' = ApiCall("update_user", user_id, 200)
    /\ UNCHANGED <<next_id, db, now>>

\* DELETE /users/{user_id}: crud_user.remove is Session.delete + commit.
delete_user(user_id) ==
    /\ LET found == crud_get(users, user_id)
       IN IF ~Truthy(found)
          THEN /\ api_ret' = ApiCall("delete_user", user_id, 404)
               /\ UNCHANGED <<users, db>>
          ELSE /\ users' = users \ {Val(found)}
               /\ db' = DeleteUserRows(db, user_id)
               /\ api_ret' = [ApiCall("delete_user", user_id, 200) EXCEPT
                     !.removed = RowCount(db) - RowCount(DeleteUserRows(db, user_id))]
    /\ UNCHANGED <<next_id, now>>

\* POST /users/{user_id}/credits: crud_user.update_credits reads
\* user.credits_balance, which no User has (the column is credit_balance):
\* AttributeError before any write, answered 500 by ErrorHandlingMiddleware.
update_user_credits(user_id, credits) ==
    /\ api_ret' = [(IF Truthy(crud_get(users, user_id))
                    THEN ApiCall("update_user_credits", user_id, 500)
                    ELSE ApiCall("update_user_credits", user_id, 404))
                      EXCEPT !.credits = credits]
    /\ UNCHANGED <<users, next_id, db, now>>

\* POST /users/{user_id}/verify-email: crud_user.verify_email.
verify_user_email(user_id) ==
    /\ LET found == crud_get(users, user_id)
       IN IF ~Truthy(found)
          THEN /\ api_ret' = ApiCall("verify_user_email", user_id, 404)
               /\ UNCHANGED users
          ELSE /\ users' = (users \ {Val(found)}) \cup
                     {[Val(found) EXCEPT !.email_verified_at = Some(now)]}
               /\ api_ret' = ApiCall("verify_user_email", user_id, 200)
    /\ UNCHANGED <<next_id, db, now>>

Max(a, b) == IF a >= b THEN a ELSE b

Min(a, b) == IF a <= b THEN a ELSE b

\* PaginatedResponse.create: the fields it computes.
PaginatedResponse_create(items, total, page, per_page) ==
    LET pages == (total + per_page - 1) \div per_page
    IN [items |-> items, total |-> total, page |-> page, per_page |-> per_page,
        pages |-> pages, has_prev |-> page > 1, has_next |-> page < pages]

\* The Field constraints of PaginatedResponse, checked by its constructor.
PaginatedResponse_valid(resp) ==
    /\ resp.page >= 1
    /\ resp.per_page >= 1 /\ resp.per_page <= 100
    /\ resp.pages >= 1

\* GET /users: CommonQueryParams clamps skip and limit, get_multi returns the
\* rows of OFFSET skip LIMIT limit (items is their number), count the table's
\* size.  skip // limit raises ZeroDivisionError for limit = 0 and the
\* constructor ValidationError for a rejected field; both are answered 500.
read_users(skip, limit) ==
    /\ LET s == Max(0, skip)
           l == Min(limit, MAX_PAGE_SIZE)
           total == Cardinality(users)
           items == Max(0, Min(l, total - s))
           call == [ApiCall("read_users", 0, 500) EXCEPT
                       !.skip = skip, !.limit = limit]
       IN IF l = 0
          THEN api_ret' = call
          ELSE LET resp == PaginatedResponse_create(items, total,
                                                    (s \div l) + 1, l)
               IN IF PaginatedResponse_valid(resp)
                  THEN api_ret' = [call EXCEPT !.code = 200, !.page = Some(resp)]
                  ELSE api_ret' = call
    /\ UNCHANGED <<users, next_id, db, now>>

CrudOnly(A) ==
    A /\ UNCHANGED <<campaignVars, userVars, taskVars, reqs,
                     authVars, agentVars, keyVars,
                     defaultVars>>

UsersCrudNext ==
    \/ \E e \in Emails : ApiOnly(crud_create(e))
    \/ \E id \in UserIds : CrudOnly(read_user(id))
    \/ \E id \in UserIds, u \in Updates : CrudOnly(update_user(id, u))
    \/ \E id \in UserIds : CrudOnly(delete_user(id))
    \/ \E id \in UserIds, c \in Credits : CrudOnly(update_user_credits(id, c))
    \/ \E id \in UserIds : CrudOnly(verify_user_email(id))
    \/ \E s \in Skips, l \in Limits : CrudOnly(read_users(s, l))

TaskIds == 1 .. MaxTasks

RowIds == 1 .. MaxRows

\* The foreign keys of the referencing tables, enforced by the database at
\* commit: a row whose parent is missing raises IntegrityError.
user_fk(uid) == uid \in Ids(users)

campaign_fk(cid) == IsNone(cid) \/ Val(cid) \in Ids(db.campaigns)

task_fk(tid) == tid \in Ids(db.tasks)

\* CRUDBase.create on campaigns, agents, api_keys: db.add + db.commit.
add_campaign(id, uid) ==
    /\ id \notin Ids(db.campaigns)
    /\ IF user_fk(uid)
       THEN db' = [db EXCEPT !.campaigns = @ \cup {[id |-> id, user_id |-> uid]}]
       ELSE UNCHANGED db
    /\ UNCHANGED <<users, next_id, api_ret, now>>

add_agent(id, uid) ==
    /\ id \notin Ids(db.agents)
    /\ IF user_fk(uid)
       THEN db' = [db EXCEPT !.agents = @ \cup {[id |-> id, user_id |-> uid]}]
       ELSE UNCHANGED db
    /\ UNCHANGED <<users, next_id, api_ret, now>>

add_api_key(id, uid) ==
    /\ id \notin Ids(db.api_keys)
    /\ IF user_fk(uid)
       THEN db' = [db EXCEPT !.api_keys = @ \cup {[id |-> id, user_id |-> uid]}]
       ELSE UNCHANGED db
    /\ UNCHANGED <<users, next_id, api_ret, now>>

\* CRUDBase.create on tasks: user_id is required, campaign_id is nullable.
add_task(id, uid, cid) ==
    /\ id \notin Ids(db.tasks)
    /\ IF user_fk(uid) /\ campaign_fk(cid)
       THEN db' = [db EXCEPT !.tasks = @ \cup
                      {[id |-> id, user_id |-> uid, campaign_id |-> cid]}]
       ELSE UNCHANGED db
    /\ UNCHANGED <<users, next_id, api_ret, now>>

\* CRUDBase.create on generated_content: task_id is required and unique.
add_generated_content(id, tid, uid) ==
    /\ id \notin Ids(db.generated_content)
    /\ IF /\ user_fk(uid)
          /\ task_fk(tid)
          /\ \A g \in db.generated_content : g.task_id # tid
       THEN db' = [db EXCEPT !.generated_content = @ \cup
                      {[id |-> id, task_id |-> tid, user_id |-> uid]}]
       ELSE UNCHANGED db
    /\ UNCHANGED <<users, next_id, api_ret, now>>

\* crud_campaign.remove: db.query(Campaign).get(id), db.delete(obj),
\* db.commit().  For an id no campaign has, db.delete(None) raises and nothing
\* changes.
remove_campaign(cid) ==
    /\ IF Truthy(crud_get(db.campaigns, cid))
       THEN db' = DeleteCampaignRows(db, cid)
       ELSE UNCHANGED db
    /\ UNCHANGED <<users, next_id, api_ret, now>>

CascadeNext ==
    \/ \E e \in Emails : ApiOnly(crud_create(e))
    \/ \E id \in RowIds, uid \in UserIds : CrudOnly(add_campaign(id, uid))
    \/ \E id \in RowIds, uid \in UserIds : CrudOnly(add_agent(id, uid))
    \/ \E id \in RowIds, uid \in UserIds : CrudOnly(add_api_key(id, uid))
    \/ \E id \in TaskIds, uid \in UserIds, cid \in {None} \cup {Some(c) : c \in RowIds} :
          CrudOnly(add_task(id, uid, cid))
    \/ \E id \in RowIds, tid \in TaskIds, uid \in UserIds :
          CrudOnly(add_generated_content(id, tid, uid))
    \/ \E id \in UserIds : CrudOnly(delete_user(id))
    \/ \E cid \in RowIds : CrudOnly(remove_campaign(cid))

(***************************************************************************)
(* JWT issuance / verification (core/security.py) and AuthService          *)
(***************************************************************************)
\* Token lifetimes in clock ticks (ACCESS_TOKEN_EXPIRE_MINUTES,
\* REFRESH_TOKEN_EXPIRE_DAYS scaled to the model's clock), and the number of
\* token pairs issued.
AccessTtl == 1
RefreshTtl == 2
MaxPairs == 2

Subjects == 1 .. MaxUsers

\* create_access_token / create_refresh_token: the claims of the signed token.
create_access_token(data) ==
    [type |-> "access", sub |-> data.sub, exp |-> now + AccessTtl]

create_refresh_token(data) ==
    [type |-> "refresh", sub |-> data.sub, exp |-> now + RefreshTtl]

\* A string that is not a token signed with SECRET_KEY.
Garbage == [type |-> "garbage", sub |-> None, exp |-> 0]

\* jwt.decode: the payload, or None for JWTError (bad signature, expired).
jwt_decode(token) ==
    IF token.type = "garbage" \/ token.exp < now THEN None ELSE Some(token)

\* verify_token without the check of the type claim.
verify_token_AnyType(token, token_type) ==
    LET payload == jwt_decode(token)
    IN IF IsNone(payload) THEN None
       ELSE IF IsNone(Val(payload).sub) THEN None
       ELSE Some([user_id |-> Val(Val(payload).sub)])

\* verify_token: TokenData, or None when the token does not decode, its type
\* claim differs from token_type, or it has no sub.
verify_token(token, token_type) ==
    LET payload == jwt_decode(token)
    IN IF IsNone(payload) THEN None
       ELSE IF Val(payload).type # token_type THEN None
       ELSE IF IsNone(Val(payload).sub) THEN None
       ELSE Some([user_id |-> Val(Val(payload).sub)])

NoAuthCall == [op |-> "none", token |-> Garbage, user_id |-> 0,
               result |-> "None", after_logout |-> FALSE]

\* create_token_pair(user_id, email, scopes)
create_token_pair(user_id) ==
    /\ Cardinality(tokens) < 2 * MaxPairs
    /\ tokens' = tokens \cup {create_access_token([sub |-> Some(user_id)]),
                              create_refresh_token([sub |-> Some(user_id)])}
    /\ auth_ret' = [NoAuthCall EXCEPT !.op = "create_token_pair",
                                      !.user_id = user_id, !.result = "Token"]
    /\ UNCHANGED <<logged_out, now>>

\* `await user_crud.get(db, id=...)`: user_crud.get is the synchronous
\* CRUDBase.get, so the value awaited is a User or None, and awaiting either
\* raises TypeError.
await_user_crud_get(user_id) == "TypeError"

\* AuthService.get_current_user.  after_logout is a history field: whether
\* logout_user was called for the token's user after the token was issued.
get_current_user(token) ==
    /\ LET token_data == verify_token(token, "access")
       IN auth_ret' = [NoAuthCall EXCEPT
             !.op = "get_current_user", !.token = token,
             !.after_logout = token \in logged_out,
             !.result = IF ~Truthy(token_data) THEN "None"
                        ELSE await_user_crud_get(Val(token_data).user_id)]
    /\ UNCHANGED <<tokens, logged_out, now>>

\* AuthService.refresh_access_token
refresh_access_token(token) ==
    /\ LET token_data == verify_token(token, "refresh")
       IN auth_ret' = [NoAuthCall EXCEPT
             !.op = "refresh_access_token", !.token = token,
             !.after_logout = token \in logged_out,
             !.result = IF ~Truthy(token_data) THEN "None"
                        ELSE await_user_crud_get(Val(token_data).user_id)]
    /\ UNCHANGED <<tokens, logged_out, now>>

\* AuthService.logout_user: its first statement awaits user_crud.get; no
\* statement of it touches the issued tokens.  logged_out is a history
\* variable: the tokens of the user that were issued before the call.
logout_user(user_id) ==
    /\ auth_ret' = [NoAuthCall EXCEPT !.op = "logout_user", !.user_id = user_id,
                                      !.result = await_user_crud_get(user_id)]
    /\ logged_out' = logged_out \cup {t \in tokens : t.sub = Some(user_id)}
    /\ UNCHANGED <<tokens, now>>

AuthOnly(A) ==
    A /\ UNCHANGED <<campaignVars, userVars, taskVars, apiVars, dbVars,
                     agentVars, keyVars,
                     defaultVars>>

AuthNext ==
    \/ \E u \in Subjects : AuthOnly(create_token_pair(u))
    \/ \E t \in tokens \cup {Garbage} : AuthOnly(get_current_user(t))
    \/ \E t \in tokens \cup {Garbage} : AuthOnly(refresh_access_token(t))
    \/ \E u \in Subjects : AuthOnly(logout_user(u))
    \/ AuthOnly(Tick /\ UNCHANGED <<tokens, logged_out, auth_ret>>)

(***************************************************************************)
(* Agent execution statistics (models/agent.py)                            *)
(***************************************************************************)
MaxExec == 4
MaxExecTime == 3

ExecTimes == 0 .. MaxExecTime

\* success_rate is Numeric(5, 4): the model holds it in ten-thousandths.
RateScale == 10000

\* A stored agent that has not run: status 'draft', is_public False and
\* execution_count 0 by column default; the nullable success_rate,
\* avg_execution_time_ms, last_executed_at, published_at are NULL.
NewAgent == [status |-> "draft", is_public |-> FALSE, published_at |-> None,
             execution_count |-> 0, success_rate |-> None,
             avg_execution_time_ms |-> None, last_executed_at |-> None]

\* History fields: calls is the number of update_execution_stats calls made,
\* successes the number of them that reported success, was_active whether
\* the agent's status has been 'active' at some time.
NoAgentCall == [op |-> "new", calls |-> 0, successes |-> 0, was_active |-> FALSE]

\* Decimal(str(successes / count)).quantize(Decimal('0.0001')), in
\* ten-thousandths: rounding half to even.
quantize(successes, count) ==
    LET q == (successes * RateScale) \div count
        r == (successes * RateScale) % count
    IN IF 2 * r > count THEN q + 1
       ELSE IF 2 * r < count THEN q
       ELSE IF q % 2 = 0 THEN q ELSE q + 1

\* A count of earlier successes that exceeds the true one by one.
successes_so_far_RoundUp(rate, count) == ((rate * (count - 1)) \div RateScale) + 1

\* int(float(self.success_rate) * (self.execution_count - 1)): truncation of
\* the product (count is the already incremented execution_count).
successes_so_far(rate, count) == (rate * (count - 1)) \div RateScale

\* Agent.update_execution_stats(execution_time_ms, success)
update_execution_stats(execution_time_ms, success) ==
    /\ agent.execution_count < MaxExec
    /\ LET count == agent.execution_count + 1
           avg == IF IsNone(agent.avg_execution_time_ms)
                  THEN execution_time_ms
                  ELSE (Val(agent.avg_execution_time_ms) * (count - 1)
                           + execution_time_ms) \div count
           rate == IF IsNone(agent.success_rate)
                   THEN (IF success THEN RateScale ELSE 0)
                   ELSE quantize(successes_so_far(Val(agent.success_rate), count)
                                    + (IF success THEN 1 ELSE 0), count)
       IN agent' = [agent EXCEPT !.execution_count = count,
                                 !.success_rate = Some(rate),
                                 !.avg_execution_time_ms = Some(avg),
                                 !.last_executed_at = Some(now)]
    /\ agent_ret' = [agent_ret EXCEPT
                        !.op = "update_execution_stats",
                        !.calls = @ + 1,
                        !.successes = @ + (IF success THEN 1 ELSE 0)]
    /\ UNCHANGED now

\* The Agent method called, and whether the agent is or has been 'active'.
AgentCall(op) ==
    agent_ret' = [agent_ret EXCEPT
                     !.op = op,
                     !.was_active = @ \/ agent'.status = "active"]

\* Agent.activate
agent_activate ==
    /\ IF agent.status = "draft"
       THEN agent' = [agent EXCEPT !.status = "active"]
       ELSE agent' = agent
    /\ AgentCall("activate")
    /\ UNCHANGED now

\* Agent.deactivate
agent_deactivate ==
    /\ IF agent.status = "active"
       THEN agent' = [agent EXCEPT !.status = "inactive"]
       ELSE agent' = agent
    /\ AgentCall("deactivate")
    /\ UNCHANGED now

\* A publish without the status test.
publish_Unguarded ==
    /\ agent' = [agent EXCEPT !.status = "published",
                              !.published_at = Some(now),
                              !.is_public = TRUE]
    /\ AgentCall("publish")
    /\ UNCHANGED now

\* Agent.publish
publish ==
    /\ IF agent.status \in {"active", "inactive"}
       THEN agent' = [agent EXCEPT !.status = "published",
                                   !.published_at = Some(now),
                                   !.is_public = TRUE]
       ELSE agent' = agent
    /\ AgentCall("publish")
    /\ UNCHANGED now

\* Agent.archive: one unconditional assignment to status.
agent_archive ==
    /\ agent' = [agent EXCEPT !.status = "archived"]
    /\ AgentCall("archive")
    /\ UNCHANGED now

\* Agent.is_published
is_published(a) == a.status = "published" /\ ~IsNone(a.published_at)

\* CRUDAgent.get_public_agents on a table holding the agent: the rows with
\* is_public == True.
get_public_agents(a) == IF a.is_public THEN {a} ELSE {}

AgentOnly(A) ==
    A /\ UNCHANGED <<campaignVars, userVars, taskVars, apiVars, dbVars,
                     authVars, keyVars,
                     defaultVars>>

AgentNext ==
    \/ \E t \in ExecTimes, s \in BOOLEAN : AgentOnly(update_execution_stats(t, s))
    \/ AgentOnly(agent_activate)
    \/ AgentOnly(agent_deactivate)
    \/ AgentOnly(publish)
    \/ AgentOnly(agent_archive)
    \/ AgentOnly(Tick /\ UNCHANGED agentVars)

(***************************************************************************)
(* APIKey error tracking (models/api_key.py)                               *)
(***************************************************************************)
MaxErrors == 11

ValidationStatuses == {"valid", "invalid", "expired", "rate_limited", "unknown"}

\* A stored key: is_active has its default True, error_count its default 0,
\* validation_status is NULL; last_validation is the 'status' entry of
\* usage_stats['last_validation'], absent on a new key.
NewAPIKey == [is_active |-> TRUE, validation_status |-> None, error_count |-> 0,
              last_validation |-> None]

\* was_active is a history field: is_active before the call.  status is the
\* argument of update_validation_status ("" for the other methods) and raised
\* the exception the call ended with.
NoKeyCall == [op |-> "new", was_active |-> TRUE, status |-> "", raised |-> "None"]

KeyCall(op) ==
    [op |-> op, was_active |-> api_key.is_active, status |-> "", raised |-> "None"]

\* A threshold that is never reached.
too_many_errors_Never(count) == FALSE

\* `if self.error_count >= 10` of increment_error_count.
too_many_errors(count) == count >= 10

\* The fields of the key after increment_error_count.
incremented(k) ==
    LET count == k.error_count + 1
    IN IF too_many_errors(count)
       THEN [k EXCEPT !.error_count = count, !.is_active = FALSE,
                      !.validation_status = Some("invalid")]
       ELSE [k EXCEPT !.error_count = count]

increment_error_count ==
    /\ api_key.error_count < MaxErrors
    /\ api_key' = incremented(api_key)
    /\ api_key_ret' = KeyCall("increment_error_count")

reset_error_count ==
    /\ api_key' = [api_key EXCEPT !.error_count = 0]
    /\ api_key_ret' = KeyCall("reset_error_count")

activate ==
    /\ api_key' = [api_key EXCEPT !.is_active = TRUE]
    /\ api_key_ret' = KeyCall("activate")

deactivate ==
    /\ api_key' = [api_key EXCEPT !.is_active = FALSE]
    /\ api_key_ret' = KeyCall("deactivate")

\* APIKey.update_validation_status(status): a status outside valid_statuses
\* raises ValueError before any write; otherwise validation_status is set
\* first, then 'valid' resets the counter and activates, 'invalid' /
\* 'expired' call increment_error_count and then deactivate, and the last
\* step writes usage_stats['last_validation'] with the argument.
\*
\* A variant whose 'valid' branch does not activate the key comes first.
update_validation_status_KeepsActive(status) ==
    /\ status \in {"invalid", "expired"} => api_key.error_count < MaxErrors
    /\ LET k == [api_key EXCEPT !.validation_status = Some(status)]
           done == IF status = "valid"
                   THEN [k EXCEPT !.error_count = 0]
                   ELSE IF status \in {"invalid", "expired"}
                   THEN [incremented(k) EXCEPT !.is_active = FALSE]
                   ELSE k
       IN api_key' =
             IF status \notin ValidationStatuses
             THEN api_key
             ELSE [done EXCEPT !.last_validation = Some(status)]
    /\ api_key_ret' =
          [KeyCall("update_validation_status") EXCEPT
              !.status = status,
              !.raised = IF status \notin ValidationStatuses
                         THEN "ValueError" ELSE "None"]

update_validation_status(status) ==
    /\ status \in {"invalid", "expired"} => api_key.error_count < MaxErrors
    /\ LET k == [api_key EXCEPT !.validation_status = Some(status)]
           done == IF status = "valid"
                   THEN [k EXCEPT !.error_count = 0, !.is_active = TRUE]
                   ELSE IF status \in {"invalid", "expired"}
                   THEN [incremented(k) EXCEPT !.is_active = FALSE]
                   ELSE k
       IN api_key' =
             IF status \notin ValidationStatuses
             THEN api_key
             ELSE [done EXCEPT !.last_validation = Some(status)]
    /\ api_key_ret' =
          [KeyCall("update_validation_status") EXCEPT
              !.status = status,
              !.raised = IF status \notin ValidationStatuses
                         THEN "ValueError" ELSE "None"]

KeyOnly(A) ==
    A /\ UNCHANGED <<now, campaignVars, userVars, taskVars, apiVars, dbVars,
                     authVars, agentVars, defaultVars>>

KeyNext ==
    \/ KeyOnly(increment_error_count)
    \/ KeyOnly(reset_error_count)
    \/ KeyOnly(activate)
    \/ KeyOnly(deactivate)
    \/ \E s \in ValidationStatuses \cup {"bogus"} :
          KeyOnly(update_validation_status(s))

(***************************************************************************)
(* Default API keys (models/api_key.py)                                    *)
(***************************************************************************)
NumKeys == 3
NumOwners == 2

KeyIds == 1 .. NumKeys

Owners == 1 .. NumOwners

\* Values of the provider column (String(50)).
Providers == {"openai", "anthropic"}

\* A stored key of a user for a provider: is_default has its default False.
NewKeyRow(user_id, provider) ==
    [user_id |-> user_id, provider |-> provider, is_default |-> FALSE]

\* The api_keys table with NumKeys keys of one user and provider.
NewKeys == [k \in KeyIds |-> NewKeyRow(1, "openai")]

\* APIKey.set_as_default on key k: one assignment to the key's own field.
set_as_default(k) ==
    keys' = [keys EXCEPT ![k].is_default = TRUE]

\* APIKey.unset_as_default on key k.
unset_as_default(k) ==
    keys' = [keys EXCEPT ![k].is_default = FALSE]

DefaultOnly(A) ==
    A /\ UNCHANGED <<now, campaignVars, userVars, taskVars, apiVars, dbVars,
                     authVars, agentVars, keyVars>>

DefaultNext ==
    \/ \E k \in KeyIds : DefaultOnly(set_as_default(k))
    \/ \E k \in KeyIds : DefaultOnly(unset_as_default(k))

(***************************************************************************)
(* Specifications                                                          *)
(***************************************************************************)
Init ==
    /\ now = 0
    /\ campaign \in {NewCampaign(b) : b \in Budgets}
    /\ campaign_ret = NoCall
    /\ user = NewUser
    /\ user_ret = NoCall
    /\ task \in {NewTask(sched) : sched \in Schedules}
    /\ task_ret = NoTaskCall
    /\ users = {}
    /\ next_id = 1
    /\ reqs = NoReqs
    /\ db = EmptyDb
    /\ api_ret = NoApiCall
    /\ tokens = {}
    /\ logged_out = {}
    /\ auth_ret = NoAuthCall
    /\ agent = NewAgent
    /\ agent_ret = NoAgentCall
    /\ api_key = NewAPIKey
    /\ api_key_ret = NoKeyCall
    /\ keys = NewKeys

Next ==
    \/ CampaignNext
    \/ UserNext
    \/ TaskNext
    \/ ApiNext
    \/ UsersCrudNext
    \/ CascadeNext
    \/ AuthNext
    \/ AgentNext
    \/ KeyNext
    \/ DefaultNext

Spec == Init /\ [][Next]_vars

InitOfCampaign ==
    /\ now = 0
    /\ campaign \in {[NewCampaign(b) EXCEPT !.status = st] :
                       b \in Budgets, st \in {"draft", "scheduled"}}
    /\ campaign_ret = NoCall
    /\ user = NewUser
    /\ user_ret = NoCall
    /\ task = NewTask(None)
    /\ task_ret = NoTaskCall
    /\ users = {}
    /\ next_id = 1
    /\ reqs = NoReqs
    /\ db = EmptyDb
    /\ api_ret = NoApiCall
    /\ tokens = {}
    /\ logged_out = {}
    /\ auth_ret = NoAuthCall
    /\ agent = NewAgent
    /\ agent_ret = NoAgentCall
    /\ api_key = NewAPIKey
    /\ api_key_ret = NoKeyCall
    /\ keys = NewKeys

SpecCampaign == InitOfCampaign /\ [][CampaignNext]_vars

InitOfUser ==
    /\ now = 0
    /\ campaign = NewCampaign(None)
    /\ campaign_ret = NoCall
    /\ user = NewUser
    /\ user_ret = NoCall
    /\ task = NewTask(None)
    /\ task_ret = NoTaskCall
    /\ users = {}
    /\ next_id = 1
    /\ reqs = NoReqs
    /\ db = EmptyDb
    /\ api_ret = NoApiCall
    /\ tokens = {}
    /\ logged_out = {}
    /\ auth_ret = NoAuthCall
    /\ agent = NewAgent
    /\ agent_ret = NoAgentCall
    /\ api_key = NewAPIKey
    /\ api_key_ret = NoKeyCall
    /\ keys = NewKeys

SpecUser == InitOfUser /\ [][UserNext]_vars

InitOfTask ==
    /\ now = 0
    /\ campaign = NewCampaign(None)
    /\ campaign_ret = NoCall
    /\ user = NewUser
    /\ user_ret = NoCall
    /\ task \in {NewTask(sched) : sched \in Schedules}
    /\ task_ret = NoTaskCall
    /\ users = {}
    /\ next_id = 1
    /\ reqs = NoReqs
    /\ db = EmptyDb
    /\ api_ret = NoApiCall
    /\ tokens = {}
    /\ logged_out = {}
    /\ auth_ret = NoAuthCall
    /\ agent = NewAgent
    /\ agent_ret = NoAgentCall
    /\ api_key = NewAPIKey
    /\ api_key_ret = NoKeyCall
    /\ keys = NewKeys

SpecTask == InitOfTask /\ [][TaskNext]_vars

InitOfUsersApi ==
    /\ now = 0
    /\ campaign = NewCampaign(None)
    /\ campaign_ret = NoCall
    /\ user = NewUser
    /\ user_ret = NoCall
    /\ task = NewTask(None)
    /\ task_ret = NoTaskCall
    /\ users = {}
    /\ next_id = 1
    /\ reqs = NoReqs
    /\ db = EmptyDb
    /\ api_ret = NoApiCall
    /\ tokens = {}
    /\ logged_out = {}
    /\ auth_ret = NoAuthCall
    /\ agent = NewAgent
    /\ agent_ret = NoAgentCall
    /\ api_key = NewAPIKey
    /\ api_key_ret = NoKeyCall
    /\ keys = NewKeys

SpecUsersApi == InitOfUsersApi /\ [][ApiNext]_vars

InitOfUsersCrud ==
    /\ now = 0
    /\ campaign = NewCampaign(None)
    /\ campaign_ret = NoCall
    /\ user = NewUser
    /\ user_ret = NoCall
    /\ task = NewTask(None)
    /\ task_ret = NoTaskCall
    /\ users = {}
    /\ next_id = 1
    /\ reqs = NoReqs
    /\ db = EmptyDb
    /\ api_ret = NoApiCall
    /\ tokens = {}
    /\ logged_out = {}
    /\ auth_ret = NoAuthCall
    /\ agent = NewAgent
    /\ agent_ret = NoAgentCall
    /\ api_key = NewAPIKey
    /\ api_key_ret = NoKeyCall
    /\ keys = NewKeys

SpecUsersCrud == InitOfUsersCrud /\ [][UsersCrudNext]_vars

InitOfCascade ==
    /\ now = 0
    /\ campaign = NewCampaign(None)
    /\ campaign_ret = NoCall
    /\ user = NewUser
    /\ user_ret = NoCall
    /\ task = NewTask(None)
    /\ task_ret = NoTaskCall
    /\ users = {}
    /\ next_id = 1
    /\ reqs = NoReqs
    /\ db = EmptyDb
    /\ api_ret = NoApiCall
    /\ tokens = {}
    /\ logged_out = {}
    /\ auth_ret = NoAuthCall
    /\ agent = NewAgent
    /\ agent_ret = NoAgentCall
    /\ api_key = NewAPIKey
    /\ api_key_ret = NoKeyCall
    /\ keys = NewKeys

SpecCascade == InitOfCascade /\ [][CascadeNext]_vars

InitOfAuth ==
    /\ now = 0
    /\ campaign = NewCampaign(None)
    /\ campaign_ret = NoCall
    /\ user = NewUser
    /\ user_ret = NoCall
    /\ task = NewTask(None)
    /\ task_ret = NoTaskCall
    /\ users = {}
    /\ next_id = 1
    /\ reqs = NoReqs
    /\ db = EmptyDb
    /\ api_ret = NoApiCall
    /\ tokens = {}
    /\ logged_out = {}
    /\ auth_ret = NoAuthCall
    /\ agent = NewAgent
    /\ agent_ret = NoAgentCall
    /\ api_key = NewAPIKey
    /\ api_key_ret = NoKeyCall
    /\ keys = NewKeys

SpecAuth == InitOfAuth /\ [][AuthNext]_vars

InitOfAgent ==
    /\ now = 0
    /\ campaign = NewCampaign(None)
    /\ campaign_ret = NoCall
    /\ user = NewUser
    /\ user_ret = NoCall
    /\ task = NewTask(None)
    /\ task_ret = NoTaskCall
    /\ users = {}
    /\ next_id = 1
    /\ reqs = NoReqs
    /\ db = EmptyDb
    /\ api_ret = NoApiCall
    /\ tokens = {}
    /\ logged_out = {}
    /\ auth_ret = NoAuthCall
    /\ agent = NewAgent
    /\ agent_ret = NoAgentCall
    /\ api_key = NewAPIKey
    /\ api_key_ret = NoKeyCall
    /\ keys = NewKeys

SpecAgent == InitOfAgent /\ [][AgentNext]_vars

InitOfAPIKey ==
    /\ now = 0
    /\ campaign = NewCampaign(None)
    /\ campaign_ret = NoCall
    /\ user = NewUser
    /\ user_ret = NoCall
    /\ task = NewTask(None)
    /\ task_ret = NoTaskCall
    /\ users = {}
    /\ next_id = 1
    /\ reqs = NoReqs
    /\ db = EmptyDb
    /\ api_ret = NoApiCall
    /\ tokens = {}
    /\ logged_out = {}
    /\ auth_ret = NoAuthCall
    /\ agent = NewAgent
    /\ agent_ret = NoAgentCall
    /\ api_key = NewAPIKey
    /\ api_key_ret = NoKeyCall
    /\ keys = NewKeys

SpecAPIKey == InitOfAPIKey /\ [][KeyNext]_vars

InitOfKeyDefaults ==
    /\ now = 0
    /\ campaign = NewCampaign(None)
    /\ campaign_ret = NoCall
    /\ user = NewUser
    /\ user_ret = NoCall
    /\ task = NewTask(None)
    /\ task_ret = NoTaskCall
    /\ users = {}
    /\ next_id = 1
    /\ reqs = NoReqs
    /\ db = EmptyDb
    /\ api_ret = NoApiCall
    /\ tokens = {}
    /\ logged_out = {}
    /\ auth_ret = NoAuthCall
    /\ agent = NewAgent
    /\ agent_ret = NoAgentCall
    /\ api_key = NewAPIKey
    /\ api_key_ret = NoKeyCall
    /\ keys \in [KeyIds -> {NewKeyRow(u, p) : u \in Owners, p \in Providers}]

SpecKeyDefaults == InitOfKeyDefaults /\ [][DefaultNext]_vars

(***************************************************************************)
(* Campaign budget accounting                                              *)
(***************************************************************************)
\* C1: for a campaign with a budget, every state reachable by spend_credits
\* calls with arbitrary integer amounts (succeeding or raising) satisfies
\* spent_credits <= budget_credits.
C1_SpentWithinBudget ==
    ~IsNone(campaign.budget_credits)
        => campaign.spent_credits <= Val(campaign.budget_credits)

\* C1 witness: the budget is used up exactly and a further spend was refused.
C1_Witness ==
    /\ ~IsNone(campaign.budget_credits)
    /\ campaign.spent_credits = Val(campaign.budget_credits)
    /\ campaign_ret.op = "spend_credits"
    /\ campaign_ret.amount > 0
    /\ campaign_ret.result = "ValueError"

\* C2 (as claimed): spent_credits is never negative in any state reachable
\* from spent_credits = 0 by spend_credits calls with arbitrary integer amounts.
C2_SpentNonNegative == campaign.spent_credits >= 0

\* C4: on a campaign with a budget, spend_credits(amount) raises ValueError
\* exactly when spent_credits + amount > budget_credits and then changes no
\* field; otherwise it returns True and spent_credits grows by exactly amount
\* (every other field unchanged).
C4_SpendCreditsContract ==
    [][ (/\ now' = now
         /\ campaign_ret'.op = "spend_credits"
         /\ ~IsNone(campaign.budget_credits))
        => IF campaign.spent_credits + campaign_ret'.amount
                  > Val(campaign.budget_credits)
           THEN /\ campaign_ret'.result = "ValueError"
                /\ campaign' = campaign
           ELSE /\ campaign_ret'.result = "True"
                /\ campaign' = [campaign EXCEPT
                                  !.spent_credits = @ + campaign_ret'.amount]
      ]_vars

\* C4 witness: a launched campaign with a budget refused a spend that would
\* pass the budget, after part of the budget was spent.
C4_Witness ==
    /\ ~IsNone(campaign.budget_credits)
    /\ campaign.status = "active"
    /\ campaign.spent_credits > 0
    /\ campaign.spent_credits < Val(campaign.budget_credits)
    /\ campaign_ret.op = "spend_credits"
    /\ campaign_ret.result = "ValueError"

(***************************************************************************)
(* User credits                                                            *)
(***************************************************************************)
\* C3: credit_balance is never negative in any state reachable by
\* User.spend_credits and User.add_credits calls with arbitrary integer
\* amounts (succeeding or raising).
C3_BalanceNonNegative == user.credit_balance >= 0

\* C3 witness: the whole balance was spent, and a further spend was refused.
C3_Witness ==
    /\ user.credit_balance = 0
    /\ user_ret.op = "spend_credits"
    /\ user_ret.amount > 0
    /\ user_ret.result = "ValueError"
    /\ ~IsNone(user.last_login_at)

(***************************************************************************)
(* Task lifecycle                                                          *)
(***************************************************************************)
\* C5 (as claimed): a task enters 'processing' only from 'queued' and enters
\* 'completed' or 'failed' only from 'processing'.
C5_LifecycleOrder ==
    [][ /\ (task'.status = "processing" /\ task.status # "processing")
             => task.status = "queued"
        /\ (task'.status \in {"completed", "failed"} /\ task'.status # task.status)
             => task.status = "processing"
      ]_vars

\* C6 (as claimed): every status the request schema accepts passes
\* valid_task_status, and every status a Task method writes is a member of the
\* TaskStatus enum: no create_task request violates valid_task_status and the
\* stored task always serializes through TaskResponse.
C6_StatusEnumsConsistent ==
    /\ task.status \in TaskStatus
    /\ task_ret.op = "create_task" => "valid_task_status" \notin task_ret.http.violated
    /\ task_ret.op = "read_task" => task_ret.http.code = 200

\* C7 (as claimed): with a non-decreasing clock, whenever completed_at and
\* started_at are both set, completed_at >= started_at.
C7_CompletedAfterStarted ==
    (~IsNone(task.completed_at) /\ ~IsNone(task.started_at))
        => Val(task.completed_at) >= Val(task.started_at)

\* C8 (as claimed): for a task with scheduled_at set, after start_execution
\* started_at >= scheduled_at.
C8_StartedAfterScheduled ==
    (task_ret.op = "start_execution" /\ ~IsNone(task.scheduled_at))
        => Val(task.started_at) >= Val(task.scheduled_at)

(***************************************************************************)
(* POST /users                                                             *)
(***************************************************************************)
\* C9 (as claimed): create_user with an email no stored user holds creates
\* exactly one user with that email and answers 201; with an email a stored
\* user holds it answers 400 'Email ja cadastrado' and creates no user.
C9_CreateUserContract ==
    \A r \in Reqs :
        reqs[r].pc = "done" =>
            IF ~reqs[r].held
            THEN /\ reqs[r].status = 201
                 /\ ~IsNone(reqs[r].created)
                 /\ Cardinality(RowsWithEmail(users, reqs[r].email)) = 1
            ELSE /\ reqs[r].status = 400
                 /\ reqs[r].detail = "Email ja cadastrado"
                 /\ IsNone(reqs[r].created)

C11_UnknownIdNotFound ==
    [][ (/\ api_ret' # api_ret
         /\ api_ret'.op \in {"read_user", "update_user", "delete_user",
                             "update_user_credits", "verify_user_email"}
         /\ api_ret'.id \notin Ids(users))
        => /\ api_ret'.code = 404
           /\ users' = users
           /\ db' = db
      ]_vars

\* C11 witness: delete_user answered 404 for the id of a user deleted
\* earlier, while two other users are stored, one renamed and one verified.
C11_Witness ==
    /\ api_ret.op = "delete_user"
    /\ api_ret.code = 404
    /\ api_ret.id < next_id
    /\ Cardinality(users) = 2
    /\ \E u \in users : u.full_name = "n1"
    /\ \E u \in users : ~IsNone(u.email_verified_at)

\* C12 (as claimed): for every number of stored users total >= 0, every
\* skip >= 0 and every limit in 1..100, read_users answers with a valid
\* PaginatedResponse: total is the number of stored users, len(items) <= limit,
\* page = skip div limit + 1, pages = ceil(total / per_page) with pages >= 1,
\* has_prev = (page > 1) and has_next = (page < pages).
C12_ReadUsersPagination ==
    [][ (/\ api_ret' # api_ret
         /\ api_ret'.op = "read_users"
         /\ api_ret'.skip >= 0
         /\ api_ret'.limit \in 1 .. 100)
        => /\ api_ret'.code = 200
           /\ ~IsNone(api_ret'.page)
           /\ LET r == Val(api_ret'.page)
              IN /\ r.total = Cardinality(users)
                 /\ r.items <= api_ret'.limit
                 /\ r.page = (api_ret'.skip \div api_ret'.limit) + 1
                 /\ r.pages * r.per_page >= r.total
                 /\ (r.pages - 1) * r.per_page < r.total
                 /\ r.pages >= 1
                 /\ r.has_prev = (r.page > 1)
                 /\ r.has_next = (r.page < r.pages)
      ]_vars

(***************************************************************************)
(* Cascades                                                                *)
(***************************************************************************)
\* C13: deleting a user cascades to everything the user owns: in every
\* reachable state no task, agent, campaign, API key or generated content row
\* references a user id that is absent from users, and no generated content
\* references a missing task.
C13_NoOrphans ==
    /\ \A t \in db.tasks : t.user_id \in Ids(users)
    /\ \A a \in db.agents : a.user_id \in Ids(users)
    /\ \A c \in db.campaigns : c.user_id \in Ids(users)
    /\ \A k \in db.api_keys : k.user_id \in Ids(users)
    /\ \A g \in db.generated_content :
          g.user_id \in Ids(users) /\ g.task_id \in Ids(db.tasks)

\* C13 witness: delete_user succeeded and removed a task another user owns
\* (through the deleted user's campaign) together with its generated content,
\* while the other user and rows of theirs remain.
C13_Witness ==
    /\ api_ret.op = "delete_user"
    /\ api_ret.code = 200
    /\ api_ret.removed >= 4
    /\ users # {}
    /\ db.tasks # {}
    /\ db.generated_content = {}

\* C14 (as claimed): crud_campaign.remove does not delete the campaign's
\* tasks: every task that referenced the campaign still exists afterwards with
\* campaign_id NULL and all its other fields unchanged.
C14_CampaignDeleteKeepsTasks ==
    [][ \A cid \in Ids(db.campaigns) :
          (cid \notin Ids(db'.campaigns) /\ users' = users)
             => \A t \in db.tasks :
                   t.campaign_id = Some(cid)
                      => [t EXCEPT !.campaign_id = None] \in db'.tasks
      ]_vars

C16_TokenTypesNotInterchangeable ==
    /\ \A t \in tokens :
          /\ t.type = "refresh" => IsNone(verify_token(t, "access"))
          /\ t.type = "access" => IsNone(verify_token(t, "refresh"))
    /\ (auth_ret.op = "get_current_user" /\ auth_ret.token.type = "refresh")
          => auth_ret.result = "None"
    /\ (auth_ret.op = "refresh_access_token" /\ auth_ret.token.type = "access")
          => auth_ret.result = "None"

\* C16 witness: get_current_user returned None for an unexpired refresh token
\* whose verification as a refresh token succeeds, while the access token of
\* the same pair verifies as an access token.
C16_Witness ==
    /\ auth_ret.op = "get_current_user"
    /\ auth_ret.token.type = "refresh"
    /\ auth_ret.result = "None"
    /\ ~IsNone(verify_token(auth_ret.token, "refresh"))
    /\ \E t \in tokens : /\ t.type = "access"
                         /\ t.sub = auth_ret.token.sub
                         /\ ~IsNone(verify_token(t, "access"))

(***************************************************************************)
(* Agent statistics                                                        *)
(***************************************************************************)
\* C17: starting from a new agent, after any sequence of n
\* update_execution_stats calls with non-negative execution times and arbitrary
\* success flags, execution_count = n, success_rate is within 0..1 and
\* avg_execution_time_ms >= 0.
C17_ExecutionStatsBounds ==
    /\ agent.execution_count = agent_ret.calls
    /\ ~IsNone(agent.success_rate)
          => Val(agent.success_rate) >= 0 /\ Val(agent.success_rate) <= RateScale
    /\ ~IsNone(agent.avg_execution_time_ms)
          => Val(agent.avg_execution_time_ms) >= 0

\* C17 witness: after three calls with mixed outcomes the rate is strictly
\* between 0 and 1 and the average time is positive.
C17_Witness ==
    /\ agent_ret.calls >= 3
    /\ agent.execution_count = agent_ret.calls
    /\ Val(agent.success_rate) > 0
    /\ Val(agent.success_rate) < RateScale
    /\ Val(agent.avg_execution_time_ms) > 0

(***************************************************************************)
(* API key error tracking                                                  *)
(***************************************************************************)
\* C18: immediately after any increment_error_count call that leaves
\* error_count >= 10, is_active is false and validation_status is 'invalid';
\* a call that leaves error_count < 10 changes neither is_active nor
\* validation_status.
C18_AutoDeactivation ==
    [][ api_key_ret'.op = "increment_error_count"
        => /\ api_key'.error_count = api_key.error_count + 1
           /\ IF api_key'.error_count >= 10
              THEN /\ api_key'.is_active = FALSE
                   /\ api_key'.validation_status = Some("invalid")
              ELSE /\ api_key'.is_active = api_key.is_active
                   /\ api_key'.validation_status = api_key.validation_status
      ]_vars

\* C18 witness: the tenth error deactivated a key that was active.
C18_Witness ==
    /\ api_key_ret.op = "increment_error_count"
    /\ api_key_ret.was_active
    /\ api_key.error_count = 10
    /\ ~api_key.is_active
    /\ api_key.validation_status = Some("invalid")

(***************************************************************************)
(* Campaign status machine                                                 *)
(***************************************************************************)
\* The statuses from which a Campaign transition method acts, and the status
\* it sets.
TransitionSources ==
    [launch |-> {"draft"}, pause |-> {"active"}, resume |-> {"paused"},
     complete |-> {"active", "paused"},
     cancel |-> {"draft", "scheduled", "active", "paused"},
     archive |-> {"completed", "cancelled"}]

TransitionTarget ==
    [launch |-> "active", pause |-> "paused", resume |-> "active",
     complete |-> "completed", cancel |-> "cancelled", archive |-> "archived"]

\* C19: each Campaign transition is effective only from its listed source
\* statuses and called from any other status is a no-op that leaves every
\* field unchanged; 'archived' is never left and no campaign returns to 'draft'.
C19_TransitionSources ==
    [][ /\ (now' = now /\ campaign_ret'.op \in DOMAIN TransitionSources)
           => IF campaign.status \in TransitionSources[campaign_ret'.op]
              THEN campaign'.status = TransitionTarget[campaign_ret'.op]
              ELSE campaign' = campaign
        /\ campaign.status = "archived" => campaign'.status = "archived"
        /\ campaign'.status = "draft" => campaign.status = "draft"
      ]_vars

\* C19 witness: launch was called on an archived campaign that had been
\* launched and completed, and the campaign is still archived.
C19_Witness ==
    /\ campaign_ret.op = "launch"
    /\ campaign.status = "archived"
    /\ ~IsNone(campaign.launched_at)
    /\ ~IsNone(campaign.completed_at)

(***************************************************************************)
(* Task retries                                                            *)
(***************************************************************************)
\* C20: retry_execution increases retry_count by exactly 1, sets status to
\* 'pending' and clears started_at, completed_at, error_message and
\* error_code (nothing else changes); every other step leaves retry_count as
\* it is, so retry_count never decreases and equals the number of
\* retry_execution calls made.
C20_RetryContract ==
    [][ IF now' = now /\ task_ret'.op = "retry_execution"
        THEN task' = [task EXCEPT !.retry_count = @ + 1,
                                  !.status = "pending",
                                  !.started_at = None,
                                  !.completed_at = None,
                                  !.error_message = None,
                                  !.error_code = None]
        ELSE task'.retry_count = task.retry_count
      ]_vars

\* C20 witness: a second retry followed a failed attempt made after a
\* completed one; the error fields are cleared and the result is kept.
C20_Witness ==
    /\ task_ret.op = "retry_execution"
    /\ task.retry_count = 2
    /\ task.status = "pending"
    /\ IsNone(task.started_at)
    /\ IsNone(task.completed_at)
    /\ IsNone(task.error_message)
    /\ IsNone(task.error_code)
    /\ ~IsNone(task.result_payload)

(***************************************************************************)
(* Agent success rate and lifecycle                                        *)
(***************************************************************************)
\* C21 (as claimed): after n >= 1 update_execution_stats calls on a new
\* agent, of which s reported success, success_rate equals s / n rounded to
\* four decimal places.
C21_SuccessRateExact ==
    agent_ret.calls >= 1
        => agent.success_rate = Some(quantize(agent_ret.successes, agent_ret.calls))

\* C26: from a draft agent, under activate, deactivate, publish and archive,
\* status = 'published' implies published_at is set and is_public is true
\* (is_published is equivalent to status = 'published'), and the agent is
\* 'published' only after having been 'active'.
C26_PublishedAgent ==
    /\ agent.status = "published"
          => /\ ~IsNone(agent.published_at)
             /\ agent.is_public
             /\ agent_ret.was_active
    /\ is_published(agent) <=> agent.status = "published"

\* C26 witness: an agent published from 'inactive' (activated, deactivated,
\* then published).
C26_Witness ==
    /\ agent.status = "published"
    /\ agent_ret.op = "publish"
    /\ agent_ret.was_active
    /\ ~IsNone(agent.published_at)
    /\ Val(agent.published_at) > 0

\* C27 (as claimed): an archived agent is never public: status = 'archived'
\* implies is_public is false, so get_public_agents never returns an
\* archived agent.
C27_ArchivedNotPublic ==
    /\ agent.status = "archived" => ~agent.is_public
    /\ \A a \in get_public_agents(agent) : a.status # "archived"

(***************************************************************************)
(* APIKey validation status                                                *)
(***************************************************************************)
\* C22 (as claimed): for each of the five valid statuses s and any prior
\* state, after update_validation_status(s) validation_status equals s and
\* agrees with the status of usage_stats['last_validation']; any other
\* string raises ValueError and changes no field.
C22_ValidationStatusStored ==
    [][api_key_ret'.op = "update_validation_status"
        => IF api_key_ret'.status \in ValidationStatuses
           THEN /\ api_key'.validation_status = Some(api_key_ret'.status)
                /\ api_key'.last_validation = api_key'.validation_status
           ELSE /\ api_key_ret'.raised = "ValueError"
                /\ api_key' = api_key]_vars

\* C23: update_validation_status('valid') leaves error_count 0 and is_active
\* true whatever the prior state; 'invalid' and 'expired' add exactly 1 to
\* error_count and leave is_active false; 'rate_limited' and 'unknown'
\* change neither.
C23_ValidationEffects ==
    [][api_key_ret'.op = "update_validation_status"
        => LET s == api_key_ret'.status
           IN /\ s = "valid"
                    => api_key'.error_count = 0 /\ api_key'.is_active
              /\ s \in {"invalid", "expired"}
                    => /\ api_key'.error_count = api_key.error_count + 1
                       /\ ~api_key'.is_active
              /\ s \in {"rate_limited", "unknown"}
                    => /\ api_key'.error_count = api_key.error_count
                       /\ api_key'.is_active = api_key.is_active]_vars

\* C23 witness: 'valid' reported for a key that was inactive.
C23_Witness ==
    /\ api_key_ret.op = "update_validation_status"
    /\ api_key_ret.status = "valid"
    /\ ~api_key_ret.was_active
    /\ api_key.is_active
    /\ api_key.error_count = 0

CampaignTimestamps(c) ==
    /\ c.status \in {"active", "paused", "completed"} => ~IsNone(c.launched_at)
    /\ c.status \in {"completed", "cancelled"} => ~IsNone(c.completed_at)

\* C25: for a campaign created in 'draft' with launched_at and completed_at
\* unset, under launch, pause, resume, complete, cancel and archive: status
\* in {active, paused, completed} implies launched_at is set, status in
\* {completed, cancelled} implies completed_at is set, and launched_at, once
\* set, never changes.
C25_CampaignTimestamps ==
    [][/\ CampaignTimestamps(campaign)
       /\ CampaignTimestamps(campaign')
       /\ ~IsNone(campaign.launched_at)
             => campaign'.launched_at = campaign.launched_at]_vars

\* C25 witness: a campaign launched at one time and completed at a later one.
C25_Witness ==
    /\ campaign.status = "completed"
    /\ campaign_ret.op = "complete"
    /\ ~IsNone(campaign.launched_at)
    /\ ~IsNone(campaign.completed_at)
    /\ Val(campaign.launched_at) < Val(campaign.completed_at)

(***************************************************************************)
(* Default API key                                                         *)
(***************************************************************************)
\* C28 (as claimed): at most one API key is the default for a given user
\* and provider: under set_as_default and unset_as_default calls on the keys
\* of one user and provider, no two of those keys have is_default true at
\* the same time.
C28_OneDefaultPerProvider ==
    \A j, k \in KeyIds :
        /\ j # k
        /\ keys[j].user_id = keys[k].user_id
        /\ keys[j].provider = keys[k].provider
        => ~(keys[j].is_default /\ keys[k].is_default)

====
